---- MODULE Spec2Model ----
(***************************************************************************)
(* A model of LudlPy's Controller (src/LudlPy/controller.py): the command  *)
(* encoder, the blocking response reader, the reply classifier, the        *)
(* argument caster, the command catalog and the busy-poll loop, together   *)
(* with the serial port's outbound and inbound byte streams.               *)
(*                                                                         *)
(* Text is a sequence of one-character strings.  A byte of the port and a  *)
(* character of a Python str are written the same way when the byte is     *)
(* 7-bit ASCII; HI stands for a byte, or a character, of value >= 128.     *)
(***************************************************************************)
EXTENDS Integers, Sequences, FiniteSets, TLC

VARIABLES
    pc,         \* where the caller is: "idle", "poll", "readline" or "ready"
    call,       \* the catalog operation in progress (or the last one)
    last_write, \* the bytes of the last stage_port.write
    in_buf,     \* the port's inbound bytes not yet consumed
    consumed,   \* the bytes the last read() / readline() returned
    result,     \* what the last finished call returned or raised
    n_writes,   \* stage_port.write calls so far
    n_reads,    \* stage_port.read / readline calls so far
    polls,      \* STATUS commands issued by the await_motors_ready in progress
    seen        \* the characters check_motor_status returned to it, in order

vars == <<pc, call, last_write, in_buf, consumed, result, n_writes, n_reads, polls, seen>>

-----------------------------------------------------------------------------
(* Characters *)

LF == "\n"
CR == "\r"
SP == " "
TAB == "\t"
HI == "0x80"

Whitespace == {SP, LF, CR, TAB}

Digits == {"0", "1", "2", "3", "4", "5", "6", "7", "8", "9"}

DigitVal(c) ==
    CASE c = "0" -> 0 [] c = "1" -> 1 [] c = "2" -> 2 [] c = "3" -> 3
      [] c = "4" -> 4 [] c = "5" -> 5 [] c = "6" -> 6 [] c = "7" -> 7
      [] c = "8" -> 8 [] c = "9" -> 9

DigitChar(d) ==
    CASE d = 0 -> "0" [] d = 1 -> "1" [] d = 2 -> "2" [] d = 3 -> "3"
      [] d = 4 -> "4" [] d = 5 -> "5" [] d = 6 -> "6" [] d = 7 -> "7"
      [] d = 8 -> "8" [] d = 9 -> "9"

IsAscii(s) == \A i \in 1..Len(s) : s[i] # HI

-----------------------------------------------------------------------------
(* Python values.  Every value and every outcome is a record with the same *)
(* fields, so that any two of them can be compared.                        *)

\* a str
StrVal(s) == [t |-> "str", text |-> s, num |-> 0, scale |-> 0]
\* an int
IntVal(n) == [t |-> "int", text |-> <<>>, num |-> n, scale |-> 0]
\* a float of value num / 10^scale, num not a multiple of 10 unless scale = 0
FloatVal(n, k) == [t |-> "float", text |-> <<>>, num |-> n, scale |-> k]

NoArgs == <<>>

\* return executed_successfully, response_array
Tuple(ok, args) ==
    [kind |-> "tuple", success |-> ok, args |-> args, text |-> <<>>, exc |-> "none"]
\* return response (a str)
Str(s) ==
    [kind |-> "str", success |-> FALSE, args |-> NoArgs, text |-> s, exc |-> "none"]
\* return None
None == [kind |-> "none", success |-> FALSE, args |-> NoArgs, text |-> <<>>, exc |-> "none"]
\* an exception leaves the call; text is what the message quotes
Raise(e, s) ==
    [kind |-> "raise", success |-> FALSE, args |-> NoArgs, text |-> s, exc |-> e]
\* no call has finished yet, or one is in progress
Pending == [kind |-> "pending", success |-> FALSE, args |-> NoArgs, text |-> <<>>, exc |-> "none"]

-----------------------------------------------------------------------------
(* str methods and built-in conversions *)

\* the first index of character c in s, or 0
RECURSIVE IndexFrom(_, _, _)
IndexFrom(s, c, i) ==
    IF i > Len(s) THEN 0
    ELSE IF s[i] = c THEN i
    ELSE IndexFrom(s, c, i + 1)

Find(s, c) == IndexFrom(s, c, 1)

\* s.split(" "): every single space separates, so the result is never empty
RECURSIVE split(_)
split(s) ==
    LET i == Find(s, SP) IN
    IF i = 0 THEN <<s>>
    ELSE <<SubSeq(s, 1, i - 1)>> \o split(SubSeq(s, i + 1, Len(s)))

\* sep.join(parts) with sep = " "
RECURSIVE join(_)
join(parts) ==
    IF Len(parts) = 0 THEN <<>>
    ELSE IF Len(parts) = 1 THEN parts[1]
    ELSE parts[1] \o <<SP>> \o join(Tail(parts))

\* s.strip(): what int() and float() do to their argument first
RECURSIVE lstrip(_)
lstrip(s) ==
    IF Len(s) > 0 /\ s[1] \in Whitespace THEN lstrip(Tail(s)) ELSE s

RECURSIVE rstrip(_)
rstrip(s) ==
    IF Len(s) > 0 /\ s[Len(s)] \in Whitespace THEN rstrip(SubSeq(s, 1, Len(s) - 1)) ELSE s

strip(s) == rstrip(lstrip(s))

HasSign(s) == Len(s) > 0 /\ s[1] \in {"-", "+"}
Unsigned(s) == IF HasSign(s) THEN Tail(s) ELSE s
SignOf(s) == IF Len(s) > 0 /\ s[1] = "-" THEN -1 ELSE 1

\* digits, with single underscores allowed between two digits
IsDigitRun(s) ==
    /\ Len(s) > 0
    /\ \A i \in 1..Len(s) : s[i] \in Digits \cup {"_"}
    /\ s[1] \in Digits
    /\ s[Len(s)] \in Digits
    /\ \A i \in 1..(Len(s) - 1) : ~(s[i] = "_" /\ s[i + 1] = "_")

RECURSIVE DigitRunValue(_, _)
DigitRunValue(s, acc) ==
    IF Len(s) = 0 THEN acc
    ELSE IF s[1] = "_" THEN DigitRunValue(Tail(s), acc)
    ELSE DigitRunValue(Tail(s), 10 * acc + DigitVal(s[1]))

RECURSIVE CountDigits(_)
CountDigits(s) ==
    IF Len(s) = 0 THEN 0
    ELSE (IF s[1] \in Digits THEN 1 ELSE 0) + CountDigits(Tail(s))

\* int(s) accepts s: a base-10 literal
IsIntLiteral(s) == IsDigitRun(Unsigned(strip(s)))

IntOf(s) == SignOf(strip(s)) * DigitRunValue(Unsigned(strip(s)), 0)

\* float(s) accepts s: the decimal forms  d, d. , d.d and .d  (the exponent,
\* "inf" and "nan" forms need letters that no modelled input contains)
IsFloatLiteral(s) ==
    LET u == Unsigned(strip(s))
        p == Find(u, ".")
        whole == IF p = 0 THEN u ELSE SubSeq(u, 1, p - 1)
        frac == IF p = 0 THEN <<>> ELSE SubSeq(u, p + 1, Len(u))
    IN  /\ Len(whole) > 0 \/ Len(frac) > 0
        /\ Len(whole) > 0 => IsDigitRun(whole)
        /\ Len(frac) > 0 => IsDigitRun(frac)

RECURSIVE Normalize(_, _)
Normalize(n, k) ==
    IF k > 0 /\ n % 10 = 0 THEN Normalize(n \div 10, k - 1) ELSE FloatVal(n, k)

FloatOf(s) ==
    LET u == Unsigned(strip(s))
        p == Find(u, ".")
        whole == IF p = 0 THEN u ELSE SubSeq(u, 1, p - 1)
        frac == IF p = 0 THEN <<>> ELSE SubSeq(u, p + 1, Len(u))
    IN  Normalize(SignOf(strip(s)) * DigitRunValue(whole \o frac, 0), CountDigits(frac))

\* str(n) for an int n, as the f-strings of the set_* and move_* operations use it
RECURSIVE NatToStr(_)
NatToStr(n) ==
    IF n < 10 THEN <<DigitChar(n)>>
    ELSE NatToStr(n \div 10) \o <<DigitChar(n % 10)>>

IntToStr(n) == IF n < 0 THEN <<"-">> \o NatToStr(-n) ELSE NatToStr(n)

-----------------------------------------------------------------------------
(* The encoder and the caster *)

\* _format_command_string(command): f"{command}\r".encode("ASCII")
FormatCommandString(command) ==
    IF IsAscii(command) THEN Str(command \o <<CR>>)
    ELSE Raise("UnicodeEncodeError", command)

\* a slip: the table maps "int" to float
CastFunctionsIntAsFloat(response_type, response_argument) ==
    CASE response_type \in {"int", "float"} ->
            IF IsFloatLiteral(response_argument)
            THEN FloatOf(response_argument)
            ELSE [t |-> "ValueError", text |-> response_argument, num |-> 0, scale |-> 0]
      [] response_type = "string" -> StrVal(response_argument)
      [] OTHER -> [t |-> "KeyError", text |-> response_argument, num |-> 0, scale |-> 0]

\* _cast_functions[response_type](response_argument)
CastFunctions(response_type, response_argument) ==
    CASE response_type = "int" ->
            IF IsIntLiteral(response_argument)
            THEN IntVal(IntOf(response_argument))
            ELSE [t |-> "ValueError", text |-> response_argument, num |-> 0, scale |-> 0]
      [] response_type = "float" ->
            IF IsFloatLiteral(response_argument)
            THEN FloatOf(response_argument)
            ELSE [t |-> "ValueError", text |-> response_argument, num |-> 0, scale |-> 0]
      [] response_type = "string" -> StrVal(response_argument)
      [] OTHER -> [t |-> "KeyError", text |-> response_argument, num |-> 0, scale |-> 0]

IsError(v) == v.t \in {"ValueError", "KeyError"}

\* a list, as _format_response returns it
List(values) ==
    [kind |-> "list", success |-> FALSE, args |-> values, text |-> <<>>, exc |-> "none"]

\* _format_response(response_arguments, response_types): the assert, then the
\* casts in order; the first cast that raises ends the call
FormatResponse(response_arguments, response_types) ==
    IF Len(response_arguments) # Len(response_types)
    THEN Raise("AssertionError", <<>>)
    ELSE LET formatted == [i \in 1..Len(response_arguments) |->
                              CastFunctions(response_types[i], response_arguments[i])]
             bad == {i \in 1..Len(formatted) : IsError(formatted[i])}
         IN  IF bad = {}
             THEN List(formatted)
             ELSE LET first == CHOOSE i \in bad : \A j \in bad : i <= j
                  IN  Raise(formatted[first].t, formatted[first].text)

-----------------------------------------------------------------------------
(* await_response, from the bytes that read() or readline() returned *)

\* response_types: None, or the sequence the caller gave
NoTypes == [given |-> FALSE, seq |-> <<>>]
Types(seq) == [given |-> TRUE, seq |-> seq]
\* "if ... and response_types": None and an empty sequence are both falsy
Truthy(response_types) == response_types.given /\ Len(response_types.seq) > 0

ReplyA == <<":", "A">>
ReplyN == <<":", "N">>

\* a slip: the reply token is accepted by its first two characters
IsKnownReplyPrefix(reply_character) ==
    Len(reply_character) >= 2
    /\ SubSeq(reply_character, 1, 2) \in {<<":", "A">>, <<":", "N">>}

\* reply_character == ":A" or reply_character == ":N"
IsKnownReply(reply_character) == reply_character = ReplyA \/ reply_character = ReplyN

\* a slip: the casts are tried whatever the reply token was
ShouldCastAlways(executed_successfully, response_types) == Truthy(response_types)

\* "if executed_successfully and response_types"
ShouldCast(executed_successfully, response_types) ==
    executed_successfully /\ Truthy(response_types)

\* response_array[1:-1]
Slice(response_array) == SubSeq(response_array, 2, Len(response_array) - 1)

\* lines 95-114: split, classify the reply character, trim, cast
ClassifyLine(response, response_types) ==
    LET response_array == split(response)
        reply_character == response_array[1]
    IN  IF ~IsKnownReply(reply_character)
        THEN Raise("Exception", reply_character)
        ELSE LET executed_successfully == (reply_character = ReplyA)
                 trimmed == Slice(response_array)
             IN  IF ShouldCast(executed_successfully, response_types)
                 THEN LET f == FormatResponse(trimmed, response_types.seq)
                      IN  IF f.kind = "raise" THEN f
                          ELSE Tuple(executed_successfully, f.args)
                 ELSE Tuple(executed_successfully, [i \in 1..Len(trimmed) |-> StrVal(trimmed[i])])

\* a slip: the single character is classified like a line
AwaitResponseClassifiesAll(bytes, response_types, response_has_newline) ==
    IF ~IsAscii(bytes) THEN Raise("UnicodeDecodeError", <<>>)
    ELSE ClassifyLine(bytes, response_types)

\* a slip: decode(errors="ignore") drops the bytes that are not ASCII
AwaitResponseLenient(bytes, response_types, response_has_newline) ==
    LET response == SelectSeq(bytes, LAMBDA b : b # HI) IN
    IF ~response_has_newline THEN Str(response)
    ELSE ClassifyLine(response, response_types)

\* lines 88-114: decode, then the raw character or the classified line
AwaitResponse(bytes, response_types, response_has_newline) ==
    IF ~IsAscii(bytes) THEN Raise("UnicodeDecodeError", <<>>)
    ELSE IF ~response_has_newline THEN Str(bytes)
    ELSE ClassifyLine(bytes, response_types)

\* a slip: everything that has arrived is taken, as read_all() would
LineOfAll(buf) == buf

\* readline(): the bytes up to and including the first newline
LineOf(buf) == SubSeq(buf, 1, Find(buf, LF))
\* a slip: the newline itself is left behind
AfterLineKeepsNewline(buf) == SubSeq(buf, Len(LineOf(buf)), Len(buf))

\* what readline() leaves in the buffer
AfterLine(buf) == SubSeq(buf, Len(LineOf(buf)) + 1, Len(buf))

-----------------------------------------------------------------------------
(* Bounds and inputs *)

\* stage_port.write calls in one behaviour
MaxWrites == 3
\* the device sends more only while at most this many inbound bytes are unread
MaxBacklog == 0
\* motor ids, or dictionary entries, in one call
MaxIds == 2

\* 'Currently, "X" & "Y" are supported'
MotorIds == {<<"X">>, <<"Y">>}
\* speeds, accelerations and positions a caller passes
Values == {0, -5, 10000}

SeqsUpTo(S, n) == UNION {[1..k -> S] : k \in 0..n}

\* Sequence[str] arguments of the get_* operations
IdSeqs == SeqsUpTo(MotorIds, MaxIds)

\* a dict[str, int] in iteration order: the keys are distinct
Dicts ==
    {d \in SeqsUpTo([id : MotorIds, value : Values], MaxIds) :
        \A i, j \in 1..Len(d) : i # j => d[i].id # d[j].id}

\* the arguments the session's callers pass: up to two motors
SessionIdSeqs == {<<>>, <<<<"X">>>>, <<<<"Y">>, <<"X">>>>}
SessionDicts ==
    { <<[id |-> <<"X">>, value |-> 10000]>>,
      <<[id |-> <<"Y">>, value |-> -5], [id |-> <<"X">>, value |-> 0]>> }

\* what the device may put on the line in one piece: reply lines with and
\* without the space before the newline, a rejected command, an unknown reply
\* token, and single status bytes
DeviceChunks ==
    { <<":", "A", SP, LF>>, <<":", "A", LF>>,
      <<":", "N", SP, LF>>, <<":", "N", LF>>,
      <<":", "A", SP, "7", SP, LF>>, <<":", "A", SP, "7", LF>>,
      <<":", "A", SP, "7", SP, "-", "5", SP, LF>>,
      <<":", "A", SP, "x", SP, LF>>,
      <<":", "E", SP, LF>>,
      <<"B">>, <<"N">>, <<HI>> }

-----------------------------------------------------------------------------
(* The command catalog *)

\* f"{motor_id} = {value}" for each item of the dictionary
MotorParameters(d) ==
    [i \in 1..Len(d) |-> d[i].id \o <<SP, "=", SP>> \o IntToStr(d[i].value)]

Ids(d) == [i \in 1..Len(d) |-> d[i].id]
Vals(d) == [i \in 1..Len(d) |-> d[i].value]

Verb(name) ==
    CASE name = "send_check" -> <<"R", "D", "S", "T", "A", "T">>
      [] name \in {"get_speed", "set_speed"} -> <<"S", "P", "E", "E", "D">>
      [] name \in {"get_acceleration", "set_acceleration"} -> <<"A", "C", "C", "E", "L">>
      [] name = "get_absolute_position" -> <<"W", "H", "E", "R", "E">>
      [] name = "move_absolute" -> <<"M", "O", "V", "E">>
      [] name = "move_relative" -> <<"M", "O", "V", "R", "E", "L">>
      [] name \in {"check_motor_status", "await_motors_ready"} ->
            <<"S", "T", "A", "T", "U", "S">>

\* a slip: the verb runs into its first argument
CommandStringNoSpace(name, arguments) == Verb(name) \o join(arguments)

\* f"{VERB} {' '.join(arguments)}"
CommandString(name, arguments) == Verb(name) \o <<SP>> \o join(arguments)

\* the command of check_motor_status: the bare verb
StatusCommand == Verb("check_motor_status")

Call(name, ids, values, response_types, response_has_newline) ==
    [name |-> name, args |-> ids, values |-> values,
     types |-> response_types, has_newline |-> response_has_newline]

NoCall == Call("none", <<>>, <<>>, NoTypes, TRUE)

\* ["int"] * len(motor_ids)
IntTypes(motor_ids) == Types([i \in 1..Len(motor_ids) |-> "int"])

\* a slip: the command goes out twice
WriteCommandTwice(command, c) ==
    /\ n_writes < MaxWrites
    /\ call' = c
    /\ consumed' = <<>>
    /\ last_write' = FormatCommandString(command).text
    /\ n_writes' = n_writes + 2
    /\ result' = Pending
    /\ pc' = "poll"
    /\ UNCHANGED <<in_buf, n_reads>>

\* self.stage_port.write(self._format_command_string(command)), then the
\* caller enters await_response
WriteCommand(command, c) ==
    LET bytes == FormatCommandString(command) IN
    /\ n_writes < MaxWrites
    /\ call' = c
    /\ consumed' = <<>>
    /\ IF bytes.kind = "raise"
       THEN /\ result' = bytes
            /\ pc' = "idle"
            /\ UNCHANGED <<last_write, n_writes>>
       ELSE /\ last_write' = bytes.text
            /\ n_writes' = n_writes + 1
            /\ result' = Pending
            /\ pc' = "poll"
    /\ UNCHANGED <<in_buf, n_reads>>

\* polls and seen belong to a running await_motors_ready only
NoLoop == polls' = 0 /\ seen' = <<>>

SendCheck(domain) ==
    \E motor_id \in domain :
        /\ pc = "idle"
        /\ WriteCommand(CommandString("send_check", <<motor_id>>),
                        Call("send_check", <<motor_id>>, <<>>, NoTypes, TRUE))
        /\ NoLoop

GetOperation(name, domain) ==
    \E motor_ids \in domain :
        /\ pc = "idle"
        /\ WriteCommand(CommandString(name, motor_ids),
                        Call(name, motor_ids, <<>>, IntTypes(motor_ids), TRUE))
        /\ NoLoop

SetOperation(name, domain) ==
    \E d \in domain :
        /\ pc = "idle"
        /\ WriteCommand(CommandString(name, MotorParameters(d)),
                        Call(name, Ids(d), Vals(d), NoTypes, TRUE))
        /\ NoLoop

send_check == SendCheck(MotorIds)
get_speed == GetOperation("get_speed", SessionIdSeqs)
set_speed == SetOperation("set_speed", SessionDicts)
get_acceleration == GetOperation("get_acceleration", SessionIdSeqs)
set_acceleration == SetOperation("set_acceleration", SessionDicts)
get_absolute_position == GetOperation("get_absolute_position", SessionIdSeqs)
move_absolute == SetOperation("move_absolute", SessionDicts)
move_relative == SetOperation("move_relative", SessionDicts)

check_motor_status ==
    /\ pc = "idle"
    /\ WriteCommand(StatusCommand,
                    Call("check_motor_status", <<>>, <<>>, NoTypes, FALSE))
    /\ NoLoop

\* await_motors_ready is entered: the caller is at the head of its loop
await_motors_ready ==
    /\ pc = "idle"
    /\ pc' = "ready"
    /\ call' = Call("await_motors_ready", <<>>, <<>>, NoTypes, FALSE)
    /\ result' = Pending
    /\ polls' = 0
    /\ seen' = <<>>
    /\ consumed' = <<>>
    /\ UNCHANGED <<last_write, in_buf, n_writes, n_reads>>

\* one turn of its loop: check_motor_status() writes STATUS
ReadyLoopStatus ==
    /\ pc = "ready"
    /\ WriteCommand(StatusCommand, call)
    /\ polls' = polls + 1
    /\ UNCHANGED seen

-----------------------------------------------------------------------------
(* await_response *)

\* a slip: the ready character is compared in the wrong case
MotorsReadyLowerCase(response) == response = <<"n">>

\* a slip: anything but "B" counts as ready
MotorsReadyNotBusy(response) == response # <<"B">>

\* response == "N"
MotorsReady(response) == response = <<"N">>

\* the call ends with outcome r; inside await_motors_ready a returned
\* character other than "N" sends the caller round the loop again
Finish(r) ==
    IF call.name = "await_motors_ready" /\ r.kind = "str"
    THEN /\ seen' = Append(seen, r.text)
         /\ IF MotorsReady(r.text)
            THEN result' = None /\ pc' = "idle"
            ELSE result' = Pending /\ pc' = "ready"
    ELSE /\ result' = r
         /\ pc' = "idle"
         /\ UNCHANGED seen

\* a slip: read() is called without waiting for in_waiting > 0 and hands
\* back whatever is there, nothing included
ReadByteNoWait ==
    /\ pc = "poll"
    /\ ~call.has_newline
    /\ consumed' = (IF in_buf = <<>> THEN <<>> ELSE <<Head(in_buf)>>)
    /\ in_buf' = (IF in_buf = <<>> THEN <<>> ELSE Tail(in_buf))
    /\ n_reads' = n_reads + 1
    /\ Finish(AwaitResponse(IF in_buf = <<>> THEN <<>> ELSE <<Head(in_buf)>>,
                            call.types, FALSE))
    /\ UNCHANGED <<call, last_write, n_writes, polls>>

\* in_waiting > 0 in busy-poll mode: read() takes one byte
ReadByte ==
    /\ pc = "poll"
    /\ ~call.has_newline
    /\ Len(in_buf) > 0
    /\ consumed' = <<Head(in_buf)>>
    /\ in_buf' = Tail(in_buf)
    /\ n_reads' = n_reads + 1
    /\ Finish(AwaitResponse(<<Head(in_buf)>>, call.types, FALSE))
    /\ UNCHANGED <<call, last_write, n_writes, polls>>

\* in_waiting > 0 in line mode: the caller enters readline()
EnterReadline ==
    /\ pc = "poll"
    /\ call.has_newline
    /\ Len(in_buf) > 0
    /\ pc' = "readline"
    /\ UNCHANGED <<call, last_write, in_buf, consumed, result, n_writes, n_reads, polls, seen>>

\* readline() returns once a newline has arrived
ReadLine ==
    /\ pc = "readline"
    /\ Find(in_buf, LF) > 0
    /\ consumed' = LineOf(in_buf)
    /\ in_buf' = AfterLine(in_buf)
    /\ n_reads' = n_reads + 1
    /\ Finish(AwaitResponse(LineOf(in_buf), call.types, TRUE))
    /\ UNCHANGED <<call, last_write, n_writes, polls>>

-----------------------------------------------------------------------------
(* The device end of the line *)

DeviceSend ==
    \E chunk \in DeviceChunks :
        /\ Len(in_buf) <= MaxBacklog
        /\ in_buf' = in_buf \o chunk
        /\ UNCHANGED <<pc, call, last_write, consumed, result, n_writes, n_reads, polls, seen>>

-----------------------------------------------------------------------------
(* The session: any sequence of catalog operations against any device *)

Init ==
    /\ pc = "idle"
    /\ call = NoCall
    /\ last_write = <<>>
    /\ in_buf = <<>>
    /\ consumed = <<>>
    /\ result = Pending
    /\ n_writes = 0
    /\ n_reads = 0
    /\ polls = 0
    /\ seen = <<>>

Next ==
    \/ send_check
    \/ get_speed
    \/ set_speed
    \/ get_acceleration
    \/ set_acceleration
    \/ get_absolute_position
    \/ move_absolute
    \/ move_relative
    \/ check_motor_status
    \/ await_motors_ready
    \/ ReadyLoopStatus
    \/ ReadByte
    \/ EnterReadline
    \/ ReadLine
    \/ DeviceSend

Spec == Init /\ [][Next]_vars

-----------------------------------------------------------------------------
(* await_response on its own: one call, entered with any response types,   *)
(* against any one line the device has sent                                *)

\* argument tokens on one line, types in one sequence, arguments in one list
MaxArgs == 2

TypeNames == {"int", "float", "string", "bool"}
TypeSeqs == SeqsUpTo(TypeNames, MaxArgs)
TypeChoices == {NoTypes} \cup {Types(seq) : seq \in TypeSeqs}

LineHeads == {<<":", "A">>, <<":", "N">>, <<":", "E">>, <<"A">>, <<HI>>, <<>>}
LineTokens ==
    {<<>>, <<"7">>, <<"-", "5">>, <<"x">>, <<"3", ".", "5">>, <<"1", "0", "0", "0", "0">>, <<HI>>}
LineTails == {<<LF>>, <<SP, LF>>}

RECURSIVE SpacedTokens(_)
SpacedTokens(tokens) ==
    IF Len(tokens) = 0 THEN <<>>
    ELSE <<SP>> \o tokens[1] \o SpacedTokens(Tail(tokens))

\* a head, then tokens each after one space, then the newline with or without
\* a space before it
Lines ==
    {head \o SpacedTokens(tokens) \o tail :
        head \in LineHeads, tokens \in SeqsUpTo(LineTokens, MaxArgs), tail \in LineTails}

LineInit ==
    /\ pc = "poll"
    /\ call \in {Call("await_response", <<>>, <<>>, types, TRUE) : types \in TypeChoices}
    /\ in_buf \in Lines
    /\ last_write = <<>>
    /\ consumed = <<>>
    /\ result = Pending
    /\ n_writes = 0
    /\ n_reads = 0
    /\ polls = 0
    /\ seen = <<>>

LineNext == EnterReadline \/ ReadLine

SpecLine == LineInit /\ [][LineNext]_vars

-----------------------------------------------------------------------------
(* Vocabulary of the properties *)

\* a direct await_response call has ended
Returned == pc = "idle" /\ call.name = "await_response"

\* the characters of a line before its first space
FirstToken(line) ==
    IF Find(line, SP) = 0 THEN line ELSE SubSeq(line, 1, Find(line, SP) - 1)

\* the characters of a line before its first space or newline
RECURSIVE LeadingToken(_)
LeadingToken(line) ==
    IF Len(line) = 0 \/ line[1] \in {SP, LF} THEN <<>>
    ELSE <<line[1]>> \o LeadingToken(Tail(line))

StartsWith(s, prefix) ==
    Len(s) >= Len(prefix) /\ SubSeq(s, 1, Len(prefix)) = prefix

\* a line ":A " + n tokens separated by single spaces + "\n", and its tokens
ArgumentText(line) == SubSeq(line, 4, Len(line) - 1)
ArgumentTokens(line) ==
    IF Len(ArgumentText(line)) = 0 THEN <<>> ELSE split(ArgumentText(line))
IsArgumentLine(line) ==
    /\ IsAscii(line)
    /\ StartsWith(line, <<":", "A", SP>>)
    /\ line[Len(line)] = LF
    /\ \A i \in 1..Len(ArgumentTokens(line)) : Len(ArgumentTokens(line)[i]) > 0

StrVals(tokens) == [i \in 1..Len(tokens) |-> StrVal(tokens[i])]

-----------------------------------------------------------------------------
(* C1..C5 *)

\* C1: a line ":A " + n argument tokens + "\n", read without expected types,
\* returns success=True and exactly those n tokens, in order.
C1_EveryTokenReturned ==
    (Returned /\ ~call.types.given /\ IsArgumentLine(consumed))
        => result = Tuple(TRUE, StrVals(ArgumentTokens(consumed)))

\* C2: send_check("X") writes one RDSTAT command and returns (True, []) on the
\* reply line ":A\n" and (False, []) on the reply line ":N\n".
C2_SendCheckBareReply ==
    (/\ pc = "idle"
     /\ call.name = "send_check"
     /\ call.args = <<<<"X">>>>
     /\ consumed \in {<<":", "A", LF>>, <<":", "N", LF>>})
        => /\ last_write = <<"R", "D", "S", "T", "A", "T", SP, "X", CR>>
           /\ result = Tuple(consumed = <<":", "A", LF>>, <<>>)

\* C3: a response ":A v\n" for an integer v, read with expected types ["int"],
\* returns (True, [v]).
C3_IntegerReadBack ==
    \A v \in Values :
        (/\ Returned
         /\ call.types = Types(<<"int">>)
         /\ consumed = <<":", "A", SP>> \o IntToStr(v) \o <<LF>>)
            => result = Tuple(TRUE, <<IntVal(v)>>)

\* C4: a line whose leading token is ":N", the line ":N\n" included, makes
\* await_response return with success=False; it never raises.
C4_RejectionIsReturned ==
    (Returned /\ IsAscii(consumed) /\ LeadingToken(consumed) = <<":", "N">>)
        => result.kind = "tuple" /\ ~result.success

\* C5: a line that decodes and whose first space-delimited token is neither
\* ":A" nor ":N" makes await_response raise the unknown-reply-character
\* error, naming that token; no (success, arguments) pair is returned.
C5_UnknownReplyRaises ==
    (/\ Returned
     /\ IsAscii(consumed)
     /\ FirstToken(consumed) \notin {<<":", "A">>, <<":", "N">>})
        => result = Raise("Exception", FirstToken(consumed))

\* an unknown reply token ":E" was read, and a bare ":A" glued to its newline
C5_Witness ==
    /\ Returned
    /\ result.exc = "Exception"
    /\ consumed \in {<<":", "E", SP, "7", SP, LF>>, <<":", "A", LF>>}

-----------------------------------------------------------------------------
(* The encoder on its own: every catalog operation, once, with every       *)
(* argument up to MaxIds motors                                            *)

GetNames == {"get_speed", "get_acceleration", "get_absolute_position"}
SetNames == {"set_speed", "set_acceleration", "move_absolute", "move_relative"}

EncodeCheck == SendCheck(MotorIds)
EncodeGet == \E name \in GetNames : GetOperation(name, IdSeqs)
EncodeSet == \E name \in SetNames : SetOperation(name, Dicts)

EncodeNext == EncodeCheck \/ EncodeGet \/ EncodeSet \/ check_motor_status

SpecEncode == Init /\ [][EncodeNext]_vars

-----------------------------------------------------------------------------
(* C6 *)

\* the verbs of the command catalog
CatalogVerb ==
    [name \in GetNames \cup SetNames \cup {"send_check", "check_motor_status"} |->
        CASE name = "send_check" -> <<"R", "D", "S", "T", "A", "T">>
          [] name \in {"get_speed", "set_speed"} -> <<"S", "P", "E", "E", "D">>
          [] name \in {"get_acceleration", "set_acceleration"} -> <<"A", "C", "C", "E", "L">>
          [] name = "get_absolute_position" -> <<"W", "H", "E", "R", "E">>
          [] name = "move_absolute" -> <<"M", "O", "V", "E">>
          [] name = "move_relative" -> <<"M", "O", "V", "R", "E", "L">>
          [] name = "check_motor_status" -> <<"S", "T", "A", "T", "U", "S">>]

\* the decimal text of the values callers pass
ValueText ==
    [v \in Values |->
        CASE v = 0 -> <<"0">>
          [] v = -5 -> <<"-", "5">>
          [] v = 10000 -> <<"1", "0", "0", "0", "0">>]

\* the argument pairs of the call in progress: "<id> = <value>", or bare "<id>"
PairText(i) ==
    IF call.name \in SetNames
    THEN call.args[i] \o <<SP, "=", SP>> \o ValueText[call.values[i]]
    ELSE call.args[i]

\* pairs i..n, each but the last followed by one space
RECURSIVE PairsFrom(_)
PairsFrom(i) ==
    IF i > Len(call.args) THEN <<>>
    ELSE IF i = Len(call.args) THEN PairText(i)
    ELSE PairText(i) \o <<SP>> \o PairsFrom(i + 1)

\* a catalog operation has just written its command
Written == pc = "poll" /\ n_writes = 1 /\ call.name \in DOMAIN CatalogVerb

\* C6 as stated: every catalog operation writes exactly
\* verb + " " + pairs joined by single spaces + "\r".
C6_VerbSpacePairs ==
    Written => last_write = CatalogVerb[call.name] \o <<SP>> \o PairsFrom(1) \o <<CR>>

\* C6 as amended: every catalog operation that takes arguments writes exactly
\* verb + " " + pairs joined by single spaces + "\r"; check_motor_status, which
\* takes none, writes exactly "STATUS\r", with no space after the verb.
C6_CommandBytes ==
    Written =>
        IF call.name = "check_motor_status"
        THEN last_write = <<"S", "T", "A", "T", "U", "S", CR>>
        ELSE last_write = CatalogVerb[call.name] \o <<SP>> \o PairsFrom(1) \o <<CR>>

\* move_absolute({"X": 10000, "Y": -5}) has written "MOVE X = 10000 Y = -5\r"
C6_Witness ==
    /\ Written
    /\ call.name = "move_absolute"
    /\ last_write = <<"M", "O", "V", "E", SP, "X", SP, "=", SP, "1", "0", "0", "0", "0",
                      SP, "Y", SP, "=", SP, "-", "5", CR>>

-----------------------------------------------------------------------------
(* C7 *)

InReadyLoop == call.name = "await_motors_ready"
ReadyReturned == InReadyLoop /\ pc = "idle" /\ result = None

\* how many of the characters are not "N"
RECURSIVE NotN(_)
NotN(chars) ==
    IF Len(chars) = 0 THEN 0
    ELSE (IF chars[1] = <<"N">> THEN 0 ELSE 1) + NotN(Tail(chars))

\* C7: await_motors_ready goes round once per status character that is not
\* "N" and returns right after the first "N": having read k other characters
\* and then "N" it has issued exactly k+1 STATUS commands and read exactly k+1
\* characters; it never returns on another character and never issues STATUS
\* again once "N" was read.
C7_BusyPoll ==
    InReadyLoop =>
        /\ \A i \in 1..(Len(seen) - 1) : seen[i] # <<"N">>
        /\ pc = "ready" => polls = Len(seen)
        /\ pc \in {"poll", "readline"} =>
                /\ polls = Len(seen) + 1
                /\ last_write = <<"S", "T", "A", "T", "U", "S", CR>>
        /\ ReadyReturned =>
                /\ Len(seen) > 0
                /\ seen[Len(seen)] = <<"N">>
                /\ polls = NotN(seen) + 1
                /\ Len(seen) = NotN(seen) + 1
        /\ (Len(seen) > 0 /\ seen[Len(seen)] = <<"N">>) => ReadyReturned

\* the status characters were "B", "B", "N": three STATUS commands, then return
C7_Witness ==
    /\ ReadyReturned
    /\ seen = <<<<"B">>, <<"B">>, <<"N">>>>
    /\ polls = 3
    /\ n_writes = 3

-----------------------------------------------------------------------------
(* _format_response on its own: one call with any arguments and any types  *)

CastTokens ==
    {<<>>, <<"1", "0">>, <<"2", "0">>, <<"-", "5">>, <<"3", ".", "5">>, <<"x">>, <<SP, "7">>}

CastInit ==
    /\ pc = "cast"
    /\ call \in {Call("_format_response", arguments, <<>>, Types(seq), TRUE) :
                    arguments \in SeqsUpTo(CastTokens, MaxArgs), seq \in TypeSeqs}
    /\ last_write = <<>>
    /\ in_buf = <<>>
    /\ consumed = <<>>
    /\ result = Pending
    /\ n_writes = 0
    /\ n_reads = 0
    /\ polls = 0
    /\ seen = <<>>

format_response ==
    /\ pc = "cast"
    /\ result' = FormatResponse(call.args, call.types.seq)
    /\ pc' = "idle"
    /\ UNCHANGED <<call, last_write, in_buf, consumed, n_writes, n_reads, polls, seen>>

SpecCast == CastInit /\ [][format_response]_vars

-----------------------------------------------------------------------------
(* C8, C9 *)

\* what int() makes of the tokens it accepts
IntExpected ==
    (<<"1", "0">> :> 10) @@ (<<"2", "0">> :> 20) @@ (<<"-", "5">> :> -5)
    @@ (<<SP, "7">> :> 7) @@ (<<"7">> :> 7) @@ (<<"1", "0", "0", "0", "0">> :> 10000)

\* what float() makes of the tokens it accepts
FloatExpected ==
    (<<"1", "0">> :> FloatVal(10, 0)) @@ (<<"2", "0">> :> FloatVal(20, 0))
    @@ (<<"-", "5">> :> FloatVal(-5, 0)) @@ (<<SP, "7">> :> FloatVal(7, 0))
    @@ (<<"7">> :> FloatVal(7, 0)) @@ (<<"1", "0", "0", "0", "0">> :> FloatVal(10000, 0))
    @@ (<<"3", ".", "5">> :> FloatVal(35, 1))

Convertible(type, argument) ==
    \/ type = "string"
    \/ type = "int" /\ argument \in DOMAIN IntExpected
    \/ type = "float" /\ argument \in DOMAIN FloatExpected

Expected(type, argument) ==
    CASE type = "int" -> IntVal(IntExpected[argument])
      [] type = "float" -> FloatExpected[argument]
      [] type = "string" -> StrVal(argument)

AllConvertible(types, arguments) ==
    /\ Len(types) = Len(arguments)
    /\ \A i \in 1..Len(arguments) : Convertible(types[i], arguments[i])

\* C8: for arguments and types of equal length, all convertible,
\* _format_response returns a list of that length whose i-th element is the
\* i-th argument cast by the i-th type, in the original order.
C8_ElementwiseCast ==
    (/\ pc = "idle"
     /\ call.name = "_format_response"
     /\ AllConvertible(call.types.seq, call.args))
        => /\ result.kind = "list"
           /\ Len(result.args) = Len(call.args)
           /\ \A i \in 1..Len(call.args) :
                 result.args[i] = Expected(call.types.seq[i], call.args[i])

\* ["10", "20"] against ["int", "int"] gave [10, 20]
C8_Witness ==
    /\ pc = "idle"
    /\ call.name = "_format_response"
    /\ call.args = <<<<"1", "0">>, <<"2", "0">>>>
    /\ call.types.seq = <<"int", "int">>
    /\ result.args = <<IntVal(10), IntVal(20)>>

\* C9: a ":A" line parsed against a type sequence the caller supplied fails
\* whenever the number of parsed arguments differs from the number of types
\* and whenever an argument cannot be converted to its declared type.
C9_MismatchOrBadCastFails ==
    (/\ Returned
     /\ call.types.given
     /\ IsAscii(consumed)
     /\ FirstToken(consumed) = <<":", "A">>
     /\ ~AllConvertible(call.types.seq, Slice(split(consumed))))
        => result.kind = "raise"

-----------------------------------------------------------------------------
(* C10 *)

\* C10: writes and reads of the port strictly alternate.  A command is
\* written only by an operation that starts (or by a turn of the busy-poll
\* loop) while no response is outstanding, one command at a time; a response
\* is read only while one command is outstanding, one read per command; so no
\* operation writes twice and none writes before the last response was read.
C10_Alternation ==
    /\ [](/\ pc \in {"idle", "ready"} => n_writes = n_reads
          /\ pc \in {"poll", "readline"} => n_writes = n_reads + 1)
    /\ [][/\ n_writes' # n_writes =>
                /\ n_writes = n_reads
                /\ n_writes' = n_writes + 1
                /\ n_reads' = n_reads
                /\ pc \in {"idle", "ready"}
                /\ pc' = "poll"
          /\ n_reads' # n_reads =>
                /\ n_writes = n_reads + 1
                /\ n_reads' = n_reads + 1
                /\ n_writes' = n_writes
                /\ pc \in {"poll", "readline"}
                /\ pc' \in {"idle", "ready"}]_vars

\* three operations in a row, each one write then one read
C10_Witness ==
    /\ pc = "idle"
    /\ n_writes = 3
    /\ n_reads = 3
    /\ call.name = "get_speed"
    /\ result.kind = "tuple"

-----------------------------------------------------------------------------
(* C11, C12 *)

\* C11: get_speed, get_acceleration and get_absolute_position of k motors
\* return success=True only with a list of exactly k integers; a ":A" reply
\* with another number of arguments never gives a successful return.
C11_OneIntegerPerMotor ==
    (/\ pc = "idle"
     /\ call.name \in GetNames
     /\ result.kind = "tuple"
     /\ result.success)
        => /\ Len(result.args) = Len(call.args)
           /\ \A i \in 1..Len(result.args) : result.args[i].t = "int"

\* the index of the last space of a line, or 0
RECURSIVE LastSpace(_)
LastSpace(line) ==
    IF Len(line) = 0 THEN 0
    ELSE IF line[Len(line)] = SP THEN Len(line)
    ELSE LastSpace(SubSeq(line, 1, Len(line) - 1))

\* the tokens after the reply token and before the trailing token: what
\* stands between the first and the last space of the line
RawTokens(line) ==
    IF Find(line, SP) = LastSpace(line) THEN <<>>
    ELSE split(SubSeq(line, Find(line, SP) + 1, LastSpace(line) - 1))

\* C12: on a ":N" reply read with expected types nothing is counted or cast:
\* await_response returns (False, L), L the raw string tokens between the
\* reply token and the trailing token, whatever they are.
C12_RejectionIsNotCast ==
    (/\ Returned
     /\ call.types.given
     /\ IsAscii(consumed)
     /\ FirstToken(consumed) = <<":", "N">>)
        => result = Tuple(FALSE, StrVals(RawTokens(consumed)))

\* ":N x 7 \n" against ["int"]: two arguments, one type, "x" no integer
C12_Witness ==
    /\ Returned
    /\ call.types = Types(<<"int">>)
    /\ consumed = <<":", "N", SP, "x", SP, "7", SP, LF>>
    /\ result = Tuple(FALSE, <<StrVal(<<"x">>), StrVal(<<"7">>)>>)

-----------------------------------------------------------------------------
(* The reader on its own: one await_response call in either mode, while    *)
(* the device's bytes arrive one at a time                                 *)

\* inbound bytes in one behaviour
MaxInBuf == 4

ReadBytes == {":", "A", SP, LF, HI}

ReadInit ==
    /\ pc = "poll"
    /\ call \in {Call("await_response", <<>>, <<>>, NoTypes, newline) : newline \in BOOLEAN}
    /\ in_buf = <<>>
    /\ last_write = <<>>
    /\ consumed = <<>>
    /\ result = Pending
    /\ n_writes = 0
    /\ n_reads = 0
    /\ polls = 0
    /\ seen = <<>>

\* one more byte arrives
DeviceByte ==
    \E b \in ReadBytes :
        /\ Len(in_buf) + Len(consumed) < MaxInBuf
        /\ in_buf' = Append(in_buf, b)
        /\ UNCHANGED <<pc, call, last_write, consumed, result, n_writes, n_reads, polls, seen>>

ReadNext == ReadByte \/ EnterReadline \/ ReadLine \/ DeviceByte

SpecRead == ReadInit /\ [][ReadNext]_vars

-----------------------------------------------------------------------------
(* C13 *)

IsPrefix(s, t) == Len(s) <= Len(t) /\ SubSeq(t, 1, Len(s)) = s

\* C13: await_response consumes nothing while no inbound byte is waiting;
\* once one is, it consumes exactly one byte in busy-poll mode, or exactly
\* the bytes up to and including the first newline in line mode, and leaves
\* every later byte in the inbound buffer.
C13_ConsumesOneUnit ==
    [][/\ (pc = "poll" /\ Len(in_buf) = 0) =>
                /\ n_reads' = n_reads
                /\ consumed' = consumed
                /\ pc' = "poll"
       /\ n_reads' = n_reads => IsPrefix(in_buf, in_buf')
       /\ n_reads' # n_reads =>
                /\ n_reads' = n_reads + 1
                /\ Len(in_buf) > 0
                /\ in_buf = consumed' \o in_buf'
                /\ IF call.has_newline
                   THEN Find(consumed', LF) = Len(consumed')
                   ELSE Len(consumed') = 1]_vars

\* a line was read and the bytes behind its newline are still waiting
C13_Witness ==
    /\ Returned
    /\ call.has_newline
    /\ consumed = <<"A", LF>>
    /\ in_buf = <<":", LF>>

-----------------------------------------------------------------------------
(* C14 *)

\* C14: check_motor_status returns exactly the one-character string it read,
\* whatever ASCII character that is: the reply is not split or classified, no
\* unknown-reply-character error is raised, and no (success, arguments) pair
\* is returned.
C14_StatusIsRawCharacter ==
    (/\ pc = "idle"
     /\ call.name = "check_motor_status"
     /\ n_reads = n_writes
     /\ IsAscii(consumed))
        => /\ Len(consumed) = 1
           /\ result = Str(consumed)

\* the device sent ":", neither "B" nor "N", and ":" is what came back
C14_Witness ==
    /\ pc = "idle"
    /\ call.name = "check_motor_status"
    /\ consumed = <<":">>
    /\ result = Str(<<":">>)

-----------------------------------------------------------------------------
(* The busy-poll loop on its own: await_motors_ready against a device that *)
(* answers every STATUS command with one byte.  The caller keeps running   *)
(* and the device keeps answering: weak fairness of each step.             *)

StatusBytes == {"B", "N", "n", ":", HI}

ReadyInit ==
    /\ pc = "ready"
    /\ call = Call("await_motors_ready", <<>>, <<>>, NoTypes, FALSE)
    /\ last_write = <<>>
    /\ in_buf = <<>>
    /\ consumed = <<>>
    /\ result = Pending
    /\ n_writes = 0
    /\ n_reads = 0
    /\ polls = 0
    /\ seen = <<>>

\* the device answers the outstanding STATUS command
DeviceStatus ==
    \E b \in StatusBytes :
        /\ pc = "poll"
        /\ in_buf = <<>>
        /\ in_buf' = <<b>>
        /\ UNCHANGED <<pc, call, last_write, consumed, result, n_writes, n_reads, polls, seen>>

ReadyNext == ReadyLoopStatus \/ ReadByte \/ DeviceStatus

SpecReady ==
    /\ ReadyInit
    /\ [][ReadyNext]_vars
    /\ WF_vars(ReadyLoopStatus)
    /\ WF_vars(ReadByte)
    /\ WF_vars(DeviceStatus)

-----------------------------------------------------------------------------
(* C15 *)

\* C15: once the device answers "N", await_motors_ready returns; as long as
\* it answers other characters, await_motors_ready does not return and
\* issues STATUS again after each of them: there is no cap on the turns (in
\* the model: none below MaxWrites) and no timeout.
C15_BusyPollLiveness ==
    /\ (pc = "poll" /\ in_buf = <<"N">>) ~> ReadyReturned
    /\ [](ReadyReturned => (Len(seen) > 0 /\ seen[Len(seen)] = <<"N">>))
    /\ \A k \in 0..(MaxWrites - 1) :
          /\ (pc = "ready" /\ polls = k) ~> (pc = "poll" /\ polls = k + 1)
          /\ \A b \in StatusBytes \ {"N", HI} :
                (pc = "poll" /\ polls = k + 1 /\ in_buf = <<b>>)
                    ~> (pc = "ready" /\ polls = k + 1 /\ Len(seen) = k + 1)

\* three answers other than "N": three STATUS commands, and the loop is at
\* its head again
C15_Witness ==
    /\ InReadyLoop
    /\ pc = "ready"
    /\ seen = <<<<"B">>, <<"n">>, <<":">>>>
    /\ polls = 3

-----------------------------------------------------------------------------
(* C16 *)

Waiting == pc \in {"poll", "readline"}

\* C16: while a command is outstanding and no inbound byte is available,
\* no step returns or raises, reads anything or writes another command: the
\* caller stays in the poll loop.  A call comes to its end (or to the next
\* turn of the ready loop) only by a step taken with a byte available.
C16_StallBlocks ==
    /\ [](Waiting => (result = Pending /\ n_writes = n_reads + 1))
    /\ [][/\ (pc = "poll" /\ in_buf = <<>>)
              => /\ pc' = "poll"
                 /\ result' = Pending
                 /\ n_reads' = n_reads
                 /\ consumed' = consumed
                 /\ n_writes' = n_writes
                 /\ last_write' = last_write
                 /\ call' = call
          /\ (Waiting /\ (~Waiting' \/ n_reads' # n_reads))
              => Len(in_buf) > 0]_vars

\* the second command of a session is written and nothing has arrived
C16_Witness ==
    /\ pc = "poll"
    /\ in_buf = <<>>
    /\ n_writes = 2
    /\ n_reads = 1
    /\ result = Pending

-----------------------------------------------------------------------------
(* C17 *)

DecodeError == Raise("UnicodeDecodeError", <<>>)

\* C17: in either read mode, a call of await_response that consumed a byte
\* >= 128 ends with the decode error: not with a raw character, not with a
\* (success, arguments) tuple, and not with the exception of the
\* classification.
C17_DecodeErrorFirst ==
    (Returned /\ n_reads = 1 /\ ~IsAscii(consumed))
        => /\ result = DecodeError
           /\ result.kind \notin {"str", "tuple"}
           /\ result.exc # "Exception"

\* a line whose reply token would otherwise be judged: ":A", a byte >= 128,
\* newline
C17_Witness ==
    /\ Returned
    /\ call.has_newline
    /\ consumed = <<":", "A", HI, LF>>
    /\ result = DecodeError

-----------------------------------------------------------------------------
(* The session against a device that keeps to the protocol's rhythm: one   *)
(* response unit per command, a line for the commands read with readline() *)
(* and one byte for STATUS.  The unit answering the n-th command carries   *)
(* the digit n where it carries a number, so that a value can be traced to *)
(* the command it answers.                                                 *)

ReplyLines(n) ==
    LET d == DigitChar(n) IN
    { <<":", "A", SP, LF>>,
      <<":", "A", LF>>,
      <<":", "A", SP, d, SP, LF>>,
      <<":", "A", SP, d, SP, d, SP, LF>>,
      <<":", "A", SP, "x", SP, LF>>,
      <<":", "N", SP, d, SP, LF>>,
      <<":", "E", SP, LF>>,
      <<":", "A", SP, HI, SP, LF>> }

ReplyBytes(n) == { <<"B">>, <<"N">>, <<HI>>, <<DigitChar(n)>> }

\* the device answers the outstanding command with one whole unit
DeviceReply ==
    /\ pc = "poll"
    /\ in_buf = <<>>
    /\ in_buf' \in (IF call.has_newline THEN ReplyLines(n_writes)
                                        ELSE ReplyBytes(n_writes))
    /\ UNCHANGED <<pc, call, last_write, consumed, result, n_writes, n_reads, polls, seen>>

StepNext ==
    \/ send_check
    \/ get_speed
    \/ set_speed
    \/ get_acceleration
    \/ set_acceleration
    \/ get_absolute_position
    \/ move_absolute
    \/ move_relative
    \/ check_motor_status
    \/ await_motors_ready
    \/ ReadyLoopStatus
    \/ ReadByte
    \/ EnterReadline
    \/ ReadLine
    \/ DeviceReply

SpecStep == Init /\ [][StepNext]_vars

-----------------------------------------------------------------------------
(* C18 *)

BetweenCalls == pc \in {"idle", "ready"}

\* a call that got as far as reading, the ready loop apart
ReadAndJudged ==
    /\ pc = "idle"
    /\ n_reads > 0
    /\ call.name # "await_motors_ready"
    /\ result.exc # "UnicodeEncodeError"

\* C18: against a device that sends one response unit per command, between
\* calls (after failed ones too) the inbound buffer is empty, the bytes last
\* consumed are the whole unit that answered the latest command, and the
\* outcome of the call is computed from that unit; every read takes the
\* whole of what has arrived.  (On entry await_motors_ready has consumed
\* nothing yet: the second conjunct speaks of it from its first turn on.)
C18_InStepAfterFailure ==
    /\ [](BetweenCalls => in_buf = <<>>)
    /\ [](BetweenCalls /\ n_reads > 0 /\ ~(pc = "ready" /\ polls = 0)
            => /\ n_reads = n_writes
               /\ consumed \in ReplyLines(n_writes) \cup ReplyBytes(n_writes))
    /\ [](ReadAndJudged
            => result = AwaitResponse(consumed, call.types, call.has_newline))
    /\ [][n_reads' # n_reads => (consumed' = in_buf /\ in_buf' = <<>>)]_vars

\* the second call of a session has failed with the decode error: its whole
\* line is consumed and nothing is left for the third
C18_Witness ==
    /\ pc = "idle"
    /\ n_reads = 2
    /\ n_writes = 2
    /\ consumed = <<":", "A", SP, HI, SP, LF>>
    /\ result = DecodeError
    /\ in_buf = <<>>

=============================================================================
